---- MODULE Spec2Model ----
(***************************************************************************)
(* Model of mseg_semantic/tool/inference_task.py (tiled multi-scale        *)
(* inference) and mseg_semantic/tool/accuracy_calculator.py (evaluation).  *)
(*                                                                         *)
(* Each part of the program has its own frame variable and its own         *)
(* specification:                                                          *)
(*   SpecTile : InferenceTask.scale_process_cuda (pad, tile loop, stitch)  *)
(*   SpecTask : InferenceTask.__init__, load_model, execute_on_img         *)
(*   SpecCalc : AccuracyCalculator.execute and the confusion accumulator   *)
(*   SpecKeys : get_unique_stem_from_last_k_strs of both files             *)
(*   SpecNet  : InferenceTask.net_process on a crop and on its mirror      *)
(* A frame whose pc is "idle" belongs to a part that is not running.       *)
(***************************************************************************)
EXTENDS Integers, Sequences, FiniteSets, TLC

VARIABLES sp, task, calc, keys, net

vars == <<sp, task, calc, keys, net>>

(***************************************************************************)
(* Bounds of the model.                                                    *)
(***************************************************************************)
\* largest height / width of the resized image handed to scale_process_cuda
MaxDim == 4
\* largest crop_h / crop_w
MaxCrop == 3
\* stride_rate ranges over 0/3, 1/3, ..., MaxRateNum/3
MaxRateNum == 4
\* args.num_model_classes
NumModelClasses == 2

\* the class axis of the score tensors (self.pred_dim)
Classes == 0 .. NumModelClasses - 1

\* stride_rate is a fraction <<num, den>>; the default of scale_process_cuda is 2/3
StrideRateNum == 2
StrideRateDen == 3
DefaultStrideRate == <<StrideRateNum, StrideRateDen>>

Max(a, b) == IF a >= b THEN a ELSE b
Min(a, b) == IF a <= b THEN a ELSE b

\* np.ceil(a / b) for a >= 0, b > 0
CeilDiv(a, b) == (a + b - 1) \div b

(***************************************************************************)
(* Images.  An image of h rows and w columns is a function on              *)
(* (0..h-1) \X (0..w-1).  A pixel of the resized input carries its own     *)
(* position <<r, c>>; a border pixel written by cv2.copyMakeBorder carries *)
(* the fill value MeanPixel, which is no position of any image.            *)
(***************************************************************************)
MeanPixel == <<-1, -1>>

Pixels(h, w) == (0 .. h - 1) \X (0 .. w - 1)

\* the resized input image of scale_process_cuda
InputImage(h, w) == [p \in Pixels(h, w) |-> p]

\* cv2.copyMakeBorder(src, top, bottom, left, right, BORDER_CONSTANT, value)
copyMakeBorder(src, h, w, top, bottom, left, right, value) ==
    [p \in Pixels(h + top + bottom, w + left + right) |->
        IF /\ top <= p[1] /\ p[1] < top + h
           /\ left <= p[2] /\ p[2] < left + w
        THEN src[<<p[1] - top, p[2] - left>>]
        ELSE value]

\* variant of Half that rounds up
HalfMutCeil(pad) == pad - (pad \div 2)
\* int(pad / 2) of a non-negative int (float division, then truncation)
Half(pad) == pad \div 2

\* variant of PadAmount that never pads
PadAmountMutNone(crop, ori) == 0
\* pad_h = max(crop_h - ori_h, 0)
PadAmount(crop, ori) == Max(crop - ori, 0)

\* pad_to_crop_sz: returns the padded image with its shape and the leading pads
pad_to_crop_sz(image, ori_h, ori_w, crop_h, crop_w) ==
    LET pad_h == PadAmount(crop_h, ori_h)
        pad_w == PadAmount(crop_w, ori_w)
        pad_h_half == Half(pad_h)
        pad_w_half == Half(pad_w)
    IN  [image |-> IF pad_h > 0 \/ pad_w > 0
                   THEN copyMakeBorder(image, ori_h, ori_w,
                                       pad_h_half, pad_h - pad_h_half,
                                       pad_w_half, pad_w - pad_w_half, MeanPixel)
                   ELSE image,
         new_h |-> IF pad_h > 0 \/ pad_w > 0 THEN ori_h + pad_h ELSE ori_h,
         new_w |-> IF pad_h > 0 \/ pad_w > 0 THEN ori_w + pad_w ELSE ori_w,
         pad_h_half |-> pad_h_half,
         pad_w_half |-> pad_w_half]

\* stride_h = int(np.ceil(crop_h * stride_rate))
Stride(crop, rate) == CeilDiv(crop * rate[1], rate[2])

\* variant of Grid without the + 1
GridMutNoPlusOne(new, crop, stride) ==
    IF new >= crop THEN CeilDiv(new - crop, stride)
    ELSE 0 - ((crop - new) \div stride)
\* variant of Grid with one grid index too many
GridMutPlusTwo(new, crop, stride) ==
    IF new >= crop THEN CeilDiv(new - crop, stride) + 2
    ELSE 2 - ((crop - new) \div stride)
\* grid_h = int(np.ceil(float(new_h - crop_h) / stride_h) + 1), stride_h > 0
\* (new - crop may be negative only when the padding is missing)
Grid(new, crop, stride) ==
    IF new >= crop THEN CeilDiv(new - crop, stride) + 1
    ELSE 1 - ((crop - new) \div stride)

\* variant of TileStart that does not shift the start back
TileStartMutNoShift(index, stride, crop, new) == index * stride
\* the tile of grid index (index_h, index_w): end clamped, start shifted back
TileEnd(index, stride, crop, new) == Min(index * stride + crop, new)
TileStart(index, stride, crop, new) == TileEnd(index, stride, crop, new) - crop

Tile(f, index_h, index_w) ==
    [s_h |-> TileStart(index_h, f.stride_h, f.crop_h, f.new_h),
     e_h |-> TileEnd(index_h, f.stride_h, f.crop_h, f.new_h),
     s_w |-> TileStart(index_w, f.stride_w, f.crop_w, f.new_w),
     e_w |-> TileEnd(index_w, f.stride_w, f.crop_w, f.new_w)]

\* the positions of buf[s_h:e_h, s_w:e_w]
Region(t, h, w) ==
    {p \in Pixels(h, w) : /\ t.s_h <= p[1] /\ p[1] < t.e_h
                          /\ t.s_w <= p[2] /\ p[2] < t.e_w}

\* variant of SumRegion that leaves out the last column of the tile
SumRegionMutShortRow(t, h, w) ==
    {p \in Region(t, h, w) : p[2] < t.e_w - 1}
\* the positions of prediction_crop[:, s_h:e_h, s_w:e_w] (line 387)
SumRegion(t, h, w) == Region(t, h, w)

\* what net_process returns at every pixel of every crop when the classifier
\* is a stub with one constant score vector
ConstScores == [c \in Classes |-> c + 1]

\* a / b of the float division of line 389: 0 / 0 is nan
NaN == <<0, 0>>
Quotient(a, b) ==
    IF b = 0 THEN (IF a = 0 THEN NaN ELSE <<1, 0>>)
    ELSE IF a % b = 0 THEN <<a \div b, 1>> ELSE <<a, b>>

(***************************************************************************)
(* scale_process_cuda.  sp is the frame of one call; sp.enumerated is the  *)
(* history of the tile loop: the grid index and the tile of each iteration.*)
(***************************************************************************)
StrideRates == {<<n, StrideRateDen>> : n \in 0 .. MaxRateNum}

NoTile == [s_h |-> 0, e_h |-> 0, s_w |-> 0, e_w |-> 0]

SpStart(oh, ow, ch, cw, rate) ==
    [pc |-> "start", ori_h |-> oh, ori_w |-> ow, crop_h |-> ch, crop_w |-> cw,
     stride_rate |-> rate, image |-> InputImage(oh, ow),
     new_h |-> oh, new_w |-> ow, pad_h_half |-> 0, pad_w_half |-> 0,
     stride_h |-> 0, stride_w |-> 0, grid_h |-> 0, grid_w |-> 0,
     index_h |-> 0, index_w |-> 0, tile |-> NoTile, tiles |-> 0,
     count_crop |-> <<>>, div_by_zero |-> FALSE, unpadded |-> <<>>,
     prediction_crop |-> <<>>, stitched |-> <<>>, enumerated |-> <<>>]

SpIdle == [pc |-> "idle"]
TaskIdle == [pc |-> "idle"]
CalcIdle == [pc |-> "idle"]
KeysIdle == [pc |-> "idle"]
NetIdle == [pc |-> "idle"]

\* the frames scale_process_cuda leaves alone
TileOnly == UNCHANGED <<task, calc, keys, net>>

InitTile ==
    \E oh \in 1 .. MaxDim, ow \in 1 .. MaxDim,
       ch \in 1 .. MaxCrop, cw \in 1 .. MaxCrop, rate \in StrideRates :
        /\ sp = SpStart(oh, ow, ch, cw, rate)
        /\ task = TaskIdle
        /\ calc = CalcIdle
        /\ keys = KeysIdle
        /\ net = NetIdle

\* lines 366-368: pad the image up to the crop size
PadImage ==
    /\ sp.pc = "start"
    /\ LET r == pad_to_crop_sz(sp.image, sp.ori_h, sp.ori_w, sp.crop_h, sp.crop_w)
       IN  sp' = [sp EXCEPT !.pc = "padded", !.image = r.image,
                            !.new_h = r.new_h, !.new_w = r.new_w,
                            !.pad_h_half = r.pad_h_half,
                            !.pad_w_half = r.pad_w_half]
    /\ TileOnly

\* lines 369-375: strides, grid and the zeroed buffers; a zero stride makes
\* the float division of line 371 raise ZeroDivisionError
ComputeGrid ==
    /\ sp.pc = "padded"
    /\ LET stride_h == Stride(sp.crop_h, sp.stride_rate)
           stride_w == Stride(sp.crop_w, sp.stride_rate)
       IN  IF stride_h = 0 \/ stride_w = 0
           THEN sp' = [sp EXCEPT !.pc = "error",
                                 !.stride_h = stride_h, !.stride_w = stride_w]
           ELSE sp' = [sp EXCEPT
                    !.pc = "loop",
                    !.stride_h = stride_h, !.stride_w = stride_w,
                    !.grid_h = Grid(sp.new_h, sp.crop_h, stride_h),
                    !.grid_w = Grid(sp.new_w, sp.crop_w, stride_w),
                    !.index_h = 0, !.index_w = 0,
                    !.count_crop = [p \in Pixels(sp.new_h, sp.new_w) |-> 0],
                    !.prediction_crop = [p \in Pixels(sp.new_h, sp.new_w) |->
                                            [c \in Classes |-> 0]]]
    /\ TileOnly

\* whether the nested loops of lines 377-378 still have an iteration to run
LoopRunning(f) == f.index_h < f.grid_h /\ f.index_w < f.grid_w

\* lines 379-387: one iteration of the tile loop
TileStep ==
    /\ sp.pc = "loop"
    /\ LoopRunning(sp)
    /\ LET t == Tile(sp, sp.index_h, sp.index_w)
           reg == Region(t, sp.new_h, sp.new_w)
           last_w == sp.index_w + 1 >= sp.grid_w
       IN  sp' = [sp EXCEPT
                    !.tile = t,
                    !.tiles = @ + 1,
                    !.enumerated = Append(@, [index_h |-> sp.index_h,
                                              index_w |-> sp.index_w,
                                              tile |-> t]),
                    !.count_crop = [p \in DOMAIN @ |->
                                      IF p \in reg THEN @[p] + 1 ELSE @[p]],
                    !.prediction_crop =
                        [p \in DOMAIN @ |->
                            IF p \in SumRegion(t, sp.new_h, sp.new_w)
                            THEN [c \in Classes |-> @[p][c] + ConstScores[c]]
                            ELSE @[p]],
                    !.index_w = IF last_w THEN 0 ELSE @ + 1,
                    !.index_h = IF last_w THEN @ + 1 ELSE @]
    /\ TileOnly

\* line 389: prediction_crop /= count_crop (a zero count gives nan, no exception)
Divide ==
    /\ sp.pc = "loop"
    /\ ~LoopRunning(sp)
    /\ sp' = [sp EXCEPT !.pc = "divided",
                        !.div_by_zero = \E p \in DOMAIN sp.count_crop :
                                            sp.count_crop[p] = 0,
                        !.stitched = [p \in DOMAIN sp.prediction_crop |->
                                        [c \in Classes |->
                                            Quotient(sp.prediction_crop[p][c],
                                                     sp.count_crop[p])]]]
    /\ TileOnly

\* prediction_crop[:, pad_h_half:pad_h_half+ori_h, pad_w_half:pad_w_half+ori_w]
\* (a slice that runs past the buffer is cut short, as Python slices are)
Unpad(f) ==
    [p \in {p \in Pixels(f.ori_h, f.ori_w) :
                <<f.pad_h_half + p[1], f.pad_w_half + p[2]>> \in DOMAIN f.image} |->
        f.image[<<f.pad_h_half + p[1], f.pad_w_half + p[2]>>]]

\* line 391: disregard the padded portion
UnpadStep ==
    /\ sp.pc = "divided"
    /\ sp' = [sp EXCEPT !.pc = "done", !.unpadded = Unpad(sp)]
    /\ TileOnly

NextTile == PadImage \/ ComputeGrid \/ TileStep \/ Divide \/ UnpadStep

SpecTile == InitTile /\ [][NextTile]_vars

(***************************************************************************)
(* Claims about scale_process_cuda, checked under SpecTile.                *)
(***************************************************************************)
AfterLoop == sp.pc \in {"divided", "done"}

Covered == /\ \A p \in DOMAIN sp.count_crop : sp.count_crop[p] >= 1
           /\ ~sp.div_by_zero

\* C1 (as stated): for any image size, crop size and stride rate, once the
\* tile loop has finished every pixel of the padded image has coverage
\* count >= 1, so the division by count_crop never divides by zero.
C1_CoverageAnyStrideRate == AfterLoop => Covered

\* C1 (amended): the same, for every stride rate with 0 < stride_rate <= 1.
C1_CoverageStrideRateAtMostOne ==
    (AfterLoop /\ 0 < sp.stride_rate[1] /\ sp.stride_rate[1] <= sp.stride_rate[2])
        => (Covered /\ DOMAIN sp.count_crop = Pixels(sp.new_h, sp.new_w))

\* the default stride rate on a grid of several rows and columns, after the loop
C1_Witness ==
    /\ sp.pc = "divided"
    /\ sp.stride_rate = DefaultStrideRate
    /\ sp.grid_h >= 2 /\ sp.grid_w >= 2
    /\ sp.tiles = sp.grid_h * sp.grid_w

\* C2: every tile enumerated by the tile loop is exactly crop_h x crop_w and
\* lies inside the padded image.
C2_TileExactAndInside ==
    (sp.pc \in {"loop", "divided", "done"} /\ sp.tiles > 0) =>
        /\ sp.tile.e_h - sp.tile.s_h = sp.crop_h
        /\ sp.tile.e_w - sp.tile.s_w = sp.crop_w
        /\ 0 <= sp.tile.s_h /\ sp.tile.e_h <= sp.new_h
        /\ 0 <= sp.tile.s_w /\ sp.tile.e_w <= sp.new_w
        /\ Cardinality(Region(sp.tile, sp.new_h, sp.new_w)) = sp.crop_h * sp.crop_w

\* a tile whose end was clamped and whose start was shifted off the stride
\* lattice, in an image that was padded along the width
C2_Witness ==
    /\ sp.pc = "loop" /\ sp.tiles > 0
    /\ sp.tile.e_h = sp.new_h
    /\ sp.tile.s_h > 0 /\ sp.tile.s_h % sp.stride_h /= 0
    /\ sp.new_w > sp.ori_w

\* C9: pad_to_crop_sz yields a padded size of max(ori, crop) per axis with
\* pad // 2 pixels on the leading edge and the rest on the trailing edge, and
\* the un-padding slice selects exactly the original pixels.
C9_PadAndUnpad ==
    LET lead_h == (Max(sp.ori_h, sp.crop_h) - sp.ori_h) \div 2
        lead_w == (Max(sp.ori_w, sp.crop_w) - sp.ori_w) \div 2
    IN  /\ sp.pc \in {"padded", "loop", "divided", "done", "error"} =>
            /\ sp.new_h = Max(sp.ori_h, sp.crop_h)
            /\ sp.new_w = Max(sp.ori_w, sp.crop_w)
            /\ DOMAIN sp.image = Pixels(sp.new_h, sp.new_w)
            /\ \A p \in DOMAIN sp.image :
                 sp.image[p] =
                    IF /\ lead_h <= p[1] /\ p[1] < lead_h + sp.ori_h
                       /\ lead_w <= p[2] /\ p[2] < lead_w + sp.ori_w
                    THEN <<p[1] - lead_h, p[2] - lead_w>>
                    ELSE MeanPixel
            /\ sp.pad_h_half + sp.ori_h <= sp.new_h
            /\ sp.pad_w_half + sp.ori_w <= sp.new_w
        /\ sp.pc = "done" =>
            /\ DOMAIN sp.unpadded = Pixels(sp.ori_h, sp.ori_w)
            /\ \A p \in DOMAIN sp.unpadded : sp.unpadded[p] = p

\* an odd padding along the height and an even one along the width, un-padded
C9_Witness ==
    /\ sp.pc = "done"
    /\ (sp.new_h - sp.ori_h) % 2 = 1
    /\ sp.new_w - sp.ori_w = 2
    /\ sp.pad_w_half > 0

\* the iterations of the tile loop so far
Enumerated == 1 .. Len(sp.enumerated)

\* the start of a tile is index * stride, and the tile ends inside the image
Unshifted(index, start, stride, crop, new) ==
    start = index * stride /\ index * stride + crop <= new

\* C13: the clamp moves a tile's start only on the last grid index of an
\* axis: every tile with index_h < grid_h - 1 starts at index_h * stride_h
\* and index_h * stride_h + crop_h <= new_h, and likewise along the width;
\* consecutive starts are exactly one stride apart except for the last one,
\* which is at most one stride after its neighbour; no two grid indices
\* yield the same tile, and the loop visits grid_h * grid_w indices.
C13_ShiftOnlyOnLastIndex ==
    /\ \A n \in Enumerated :
         LET e == sp.enumerated[n]
         IN  /\ e.index_h < sp.grid_h /\ e.index_w < sp.grid_w
             /\ e.index_h < sp.grid_h - 1 =>
                    Unshifted(e.index_h, e.tile.s_h, sp.stride_h,
                              sp.crop_h, sp.new_h)
             /\ e.index_w < sp.grid_w - 1 =>
                    Unshifted(e.index_w, e.tile.s_w, sp.stride_w,
                              sp.crop_w, sp.new_w)
    /\ \A m, n \in Enumerated :
         LET d == sp.enumerated[m]
             e == sp.enumerated[n]
         IN  /\ m # n => (d.tile # e.tile
                          /\ <<d.index_h, d.index_w>> # <<e.index_h, e.index_w>>)
             /\ (e.index_h = d.index_h + 1) =>
                    /\ e.tile.s_h > d.tile.s_h
                    /\ e.tile.s_h - d.tile.s_h <= sp.stride_h
                    /\ e.index_h < sp.grid_h - 1 =>
                          e.tile.s_h - d.tile.s_h = sp.stride_h
             /\ (e.index_w = d.index_w + 1) =>
                    /\ e.tile.s_w > d.tile.s_w
                    /\ e.tile.s_w - d.tile.s_w <= sp.stride_w
                    /\ e.index_w < sp.grid_w - 1 =>
                          e.tile.s_w - d.tile.s_w = sp.stride_w
    /\ AfterLoop => Len(sp.enumerated) = sp.grid_h * sp.grid_w

\* a finished loop over three grid rows and several columns whose last row
\* and last column were shifted back by the clamp
C13_Witness ==
    /\ AfterLoop
    /\ sp.grid_h >= 3 /\ sp.grid_w >= 2
    /\ \E n \in Enumerated :
         LET e == sp.enumerated[n]
         IN  /\ e.index_h = sp.grid_h - 1 /\ e.index_w = sp.grid_w - 1
             /\ e.tile.s_h < e.index_h * sp.stride_h
             /\ e.tile.s_w < e.index_w * sp.stride_w

\* the number of loop iterations so far whose tile contains pixel p
TilesContaining(p) ==
    Cardinality({n \in Enumerated :
                    p \in Region(sp.enumerated[n].tile, sp.new_h, sp.new_w)})

\* both buffers span the padded image, the coverage buffer counts the tiles
\* that contain each pixel and the sum buffer holds that many copies of v
BuffersInStep ==
    sp.pc \in {"loop", "divided", "done"} =>
        /\ DOMAIN sp.count_crop = Pixels(sp.new_h, sp.new_w)
        /\ DOMAIN sp.prediction_crop = Pixels(sp.new_h, sp.new_w)
        /\ \A p \in Pixels(sp.new_h, sp.new_w) :
             /\ sp.count_crop[p] = TilesContaining(p)
             /\ \A c \in Classes :
                  sp.prediction_crop[p][c] = sp.count_crop[p] * ConstScores[c]
        /\ (sp.pc = "loop" /\ sp.enumerated = <<>>) =>
                \A p \in Pixels(sp.new_h, sp.new_w) : sp.count_crop[p] = 0

StitchedIsV(p) == \A c \in Classes : sp.stitched[p][c] = <<ConstScores[c], 1>>

MaxScales == 2
\* the scales are 1/2, 2/2, ..., MaxScaleId/2
MaxScaleId == 2
\* largest number of tiles of one scale_process_cuda call
MaxTiles == 2
\* the stand-in classifiers are numbered 0 .. MaxStub
MaxStub == 1

\* every string that is neither 'universal' nor 'test_dataset' behaves as "naive"
OutputTaxonomies == {"universal", "test_dataset", "naive"}

SeqsUpTo(S, n) == UNION {[1 .. k -> S] : k \in 0 .. n}

\* np.uint8(x)
Uint8Modulus == 256
Uint8(x) == x % Uint8Modulus

\* args.num_model_classes (self.pred_dim, line 207): a class count that fits
\* the 8-bit label type and one that does not
ClassCounts == {NumModelClasses, Uint8Modulus + 1}
\* the class axis of a task's score tensors
TaskClasses(t) == 0 .. t.pred_dim - 1

\* the stand-in classifier may favour one class (peak) or none
NoPeak == -1
Peaks(pred_dim) == {NoPeak, pred_dim - 2, pred_dim - 1}

\* the score of class c in the map scale_process_cuda returns for one scale
ScoreAt(t, scale, c) ==
    ((t.stub + scale * (c + 1)) % 3) + (IF c = t.peak THEN 3 ELSE 0)
\* the score map scale_process_cuda returns for one scale
ScaleScores(t, scale) == [c \in TaskClasses(t) |-> ScoreAt(t, scale, c)]

\* variant of load_model that goes on without a checkpoint
load_modelMutNoRaise(isfile) == "loaded"
\* load_model: the checkpoint is loaded if the file exists, else RuntimeError
load_model(isfile) == IF isfile THEN "loaded" ELSE "RuntimeError"

\* how net_process ends after its forward pass (lines 432-446):
\* 'universal' returns the averaged output; 'test_dataset' gets None from
\* convert_pred_to_label_tax_and_softmax, which has no return statement, and
\* fails on output[0]; any other string prints and calls quit()
net_process_end(output_taxonomy) ==
    CASE output_taxonomy = "universal" -> "output"
      [] output_taxonomy = "test_dataset" -> "TypeError"
      [] OTHER -> "quit"

\* torch.argmax over the class axis (first maximum)
ArgMax(scores) ==
    CHOOSE c \in DOMAIN scores :
        \A d \in DOMAIN scores :
            scores[d] < scores[c] \/ (scores[d] = scores[c] /\ c <= d)

TaskNew(isfile, taxonomy, scales, stub, pred_dim, peak) ==
    [pc |-> "new", model_path_isfile |-> isfile, output_taxonomy |-> taxonomy,
     scales |-> scales, stub |-> stub, pred_dim |-> pred_dim, peak |-> peak,
     model |-> "none", i |-> 0,
     prediction |-> [c \in 0 .. pred_dim - 1 |-> 0], n_added |-> 0,
     divisor |-> 1, label |-> 0, gray_img |-> 0, forward_passes |-> 0]

\* the frames InferenceTask leaves alone
TaskOnly == UNCHANGED <<sp, calc, keys, net>>

InitTask ==
    \E isfile \in BOOLEAN, taxonomy \in OutputTaxonomies,
       scales \in SeqsUpTo(1 .. MaxScaleId, MaxScales), stub \in 0 .. MaxStub,
       pred_dim \in ClassCounts :
      \E peak \in Peaks(pred_dim) :
        /\ task = TaskNew(isfile, taxonomy, scales, stub, pred_dim, peak)
        /\ sp = SpIdle
        /\ calc = CalcIdle
        /\ keys = KeysIdle
        /\ net = NetIdle

\* __init__ (lines 202-241): the only check that can fail on these inputs is
\* load_model's; output_taxonomy is stored unchecked (line 213)
Construct ==
    /\ task.pc = "new"
    /\ LET m == load_model(task.model_path_isfile)
       IN  task' = [task EXCEPT
                      !.model = m,
                      !.pc = IF m = "loaded" THEN "constructed" ELSE "init_failed"]
    /\ TaskOnly

\* execute_on_img, lines 330-333: the zeroed accumulator
ExecuteOnImg ==
    /\ task.pc = "constructed"
    /\ task' = [task EXCEPT !.pc = "scales", !.i = 0, !.n_added = 0,
                            !.prediction = [c \in TaskClasses(task) |-> 0]]
    /\ TaskOnly

\* variant of ScalesLeft that leaves the last scale out
ScalesLeftMutSkipLast(t) == t.i + 1 < Len(t.scales)
\* whether the loop over self.scales has an element left
ScalesLeft(t) == t.i < Len(t.scales)

\* lines 335-337: one iteration of the scale loop.  scale_process_cuda runs
\* net_process once per tile (at least one tile); the first net_process runs
\* the forward pass of line 426 and only then looks at output_taxonomy
ScaleStep ==
    /\ task.pc = "scales"
    /\ ScalesLeft(task)
    /\ \E tiles \in 1 .. MaxTiles :
         LET end == net_process_end(task.output_taxonomy)
             scale == task.scales[task.i + 1]
             map == ScaleScores(task, scale)
         IN  IF end = "output"
             THEN task' = [task EXCEPT
                             !.forward_passes = @ + tiles,
                             !.prediction = [c \in TaskClasses(task) |->
                                                @[c] + map[c]],
                             !.n_added = @ + 1,
                             !.i = @ + 1]
             ELSE task' = [task EXCEPT !.forward_passes = @ + 1, !.pc = end]
    /\ TaskOnly

\* lines 339-343: divide by len(self.scales), argmax, cast.  With no scale
\* the division is 0/0 = nan for every class and argmax may return any class
Fuse ==
    /\ task.pc = "scales"
    /\ ~ScalesLeft(task)
    /\ \E a \in (IF Len(task.scales) > 0 THEN {ArgMax(task.prediction)}
                 ELSE TaskClasses(task)) :
         /\ task' = [task EXCEPT !.pc = "done",
                                 !.divisor = Len(task.scales),
                                 !.label = a,
                                 !.gray_img = Uint8(a)]
    /\ TaskOnly

NextTask == Construct \/ ExecuteOnImg \/ ScaleStep \/ Fuse

SpecTask == InitTask /\ [][NextTask]_vars

(***************************************************************************)
(* Claims about InferenceTask, checked under SpecTask.                     *)
(***************************************************************************)
\* C3 (as stated): with an output_taxonomy that is neither 'universal' nor
\* 'test_dataset' the run fails before inference starts: no classifier
\* forward pass is executed in any such run.
C3_NoForwardPassOnUnrecognizedTaxonomy ==
    task.output_taxonomy \notin {"universal", "test_dataset"} =>
        task.forward_passes = 0

\* C4: if no checkpoint file exists at args.model_path, construction raises
\* and no forward pass can ever run on that task.
C4_NoInferenceWithoutCheckpoint ==
    ~task.model_path_isfile =>
        /\ task.pc \in {"new", "init_failed"}
        /\ task.forward_passes = 0
        /\ task.model /= "loaded"

\* construction has failed on a missing checkpoint
C4_Witness ==
    /\ ~task.model_path_isfile
    /\ task.pc = "init_failed"
    /\ task.model = "RuntimeError"

RECURSIVE SumScores(_, _, _)
SumScores(t, scales, c) ==
    IF scales = <<>> THEN 0
    ELSE ScoreAt(t, Head(scales), c) + SumScores(t, Tail(scales), c)

C12_CastKeepsArgmaxIndex ==
    (task.pc = "done" /\ Len(task.scales) > 0) =>
        /\ task.label = ArgMax(task.prediction)
        /\ task.gray_img \in TaskClasses(task)
        /\ task.gray_img = task.label

(***************************************************************************)
(* AccuracyCalculator.  self.sam is the confusion accumulator; its class   *)
(* (SegmentationAverageMeter, mseg_semantic/utils/avg_meter.py) is not     *)
(* among the sources, so update_metrics_cpu follows the specification of   *)
(* the confusion aggregator: counts[target][pred] over the valid targets.  *)
(* A label image is a sequence of <<target, pred>> pixel pairs.            *)
(***************************************************************************)
\* largest len(data_list)
MaxImages == 2
\* largest number of pixels of one label image
MaxPixels == 1
\* the ignore sentinel of the ground truth
IgnoreLabel == 255

\* num_eval_classes evaluation classes; the model uses as many as the classifier
EvalClasses == Classes
NumEvalClasses == Cardinality(EvalClasses)

\* target values of a ground-truth image: a class, the first id past the
\* classes, or the ignore sentinel; predictions are class ids
TargetValues == EvalClasses \cup {NumEvalClasses, IgnoreLabel}
PixelPairs == TargetValues \X EvalClasses
LabelImages == UNION {[1 .. k -> PixelPairs] : k \in 1 .. MaxPixels}

Cells == EvalClasses \X EvalClasses
ZeroCounts == [cell \in Cells |-> 0]

\* whether a pixel's target takes part in the confusion matrix
ValidTarget(t, num_classes) == t /= IgnoreLabel /\ 0 <= t /\ t < num_classes

\* variant of UpdatePixel that clamps the target instead of skipping it
UpdatePixelMutClamp(counts, px, num_classes) ==
    [counts EXCEPT ![<<Min(px[1], num_classes - 1), px[2]>>] = @ + 1]
\* one pixel of update: counts[target][pred] += 1 when the target is valid
UpdatePixel(counts, px, num_classes) ==
    IF ValidTarget(px[1], num_classes)
    THEN [counts EXCEPT ![<<px[1], px[2]>>] = @ + 1]
    ELSE counts

\* SegmentationAverageMeter.update_metrics_cpu(pred, target, num_classes)
RECURSIVE update_metrics_cpu(_, _, _)
update_metrics_cpu(counts, img, num_classes) ==
    IF img = <<>> THEN counts
    ELSE update_metrics_cpu(UpdatePixel(counts, Head(img), num_classes),
                            Tail(img), num_classes)

\* variant of AccumulatorFor that starts every image from a fresh accumulator
AccumulatorForMutFresh(c) == ZeroCounts
\* the accumulator evaluate_predictions updates for an image: self.sam
AccumulatorFor(c) == c.sam

\* the pixel pairs processed so far, as a count per pair (history of the run)
RECURSIVE Tally(_, _)
Tally(seen, img) ==
    IF img = <<>> THEN seen
    ELSE Tally([seen EXCEPT ![Head(img)] = @ + 1], Tail(img))

\* args.taxonomy: dump_acc_results_to_file tells 'universal' from any other
\* string, which "test_dataset" stands for
Taxonomies == {"universal", "test_dataset"}

\* the lines of results.txt: the summary line and the line of class i
SummaryLine == [kind |-> "Eval result", id |-> -1]
ClassLine(i) == [kind |-> "Class", id |-> i]

\* the elements of a list
Elements(seq) == {seq[k] : k \in 1 .. Len(seq)}

\* variant of WritesClassLine that leaves class 0 out
WritesClassLineMutSkipZero(taxonomy, excluded_ids, i) ==
    i # 0 /\ (taxonomy = "universal" => i \notin Elements(excluded_ids))
\* lines 259-263: whether the body of the class loop writes a line for class i
WritesClassLine(taxonomy, excluded_ids, i) ==
    IF taxonomy = "universal" THEN i \notin Elements(excluded_ids) ELSE TRUE

\* lines 258-263: for i in range(self.num_eval_classes), from class i on
RECURSIVE WriteClassLines(_, _, _, _)
WriteClassLines(taxonomy, excluded_ids, i, n) ==
    IF i >= n THEN <<>>
    ELSE (IF WritesClassLine(taxonomy, excluded_ids, i)
          THEN <<ClassLine(i)>> ELSE <<>>)
         \o WriteClassLines(taxonomy, excluded_ids, i + 1, n)

\* lines 251-254: the arguments of the get_metrics call (the defaults are
\* exclude=False and no exclude_ids)
GetMetricsArgs(taxonomy, excluded_ids) ==
    IF taxonomy = "universal"
    THEN [exclude |-> TRUE, exclude_ids |-> excluded_ids]
    ELSE [exclude |-> FALSE, exclude_ids |-> <<>>]

\* the classes a get_metrics call leaves out of the mIoU / mAcc means on
\* account of its arguments
LeftOutOfMeans(args) ==
    IF args.exclude THEN Elements(args.exclude_ids) ELSE {}

CalcNew(n, taxonomy) ==
    [pc |-> "new", data_list |-> [k \in 1 .. n |-> k], i |-> 0,
     sam |-> <<>>, sam_created |-> 0, updates |-> <<>>, reads |-> <<>>,
     seen |-> [px \in PixelPairs |-> 0],
     taxonomy |-> taxonomy, excluded_ids |-> <<>>,
     get_metrics_args |-> GetMetricsArgs("test_dataset", <<>>),
     result_file |-> <<>>]

\* the frames AccuracyCalculator leaves alone
CalcOnly == UNCHANGED <<sp, task, keys, net>>

InitCalc ==
    \E n \in 0 .. MaxImages, taxonomy \in Taxonomies :
        /\ calc = CalcNew(n, taxonomy)
        /\ sp = SpIdle
        /\ task = TaskIdle
        /\ keys = KeysIdle
        /\ net = NetIdle

\* __init__ (lines 87-110): self.sam = SegmentationAverageMeter() and
\* self.excluded_ids = []
ConstructCalc ==
    /\ calc.pc = "new"
    /\ calc' = [calc EXCEPT !.pc = "evaluate", !.sam = ZeroCounts,
                            !.sam_created = @ + 1,
                            !.excluded_ids = <<>>]
    /\ CalcOnly

\* whether the loop over data_list has an entry left
EntriesLeft(c) == c.i < Len(c.data_list)

\* evaluate_predictions, lines 141-153: one iteration.  The prediction and
\* the ground truth are read from disk; imageio.imread raises when the
\* target file cannot be read, which ends execute
EvaluateStep ==
    /\ calc.pc = "evaluate"
    /\ EntriesLeft(calc)
    /\ \/ \E img \in LabelImages :
            calc' = [calc EXCEPT
                       !.sam = update_metrics_cpu(AccumulatorFor(calc), img,
                                                  NumEvalClasses),
                       !.updates = Append(@, calc.data_list[calc.i + 1]),
                       !.seen = Tally(@, img),
                       !.i = @ + 1]
       \/ calc' = [calc EXCEPT !.pc = "error"]
    /\ CalcOnly

\* execute, line 118: print_results reads the metrics (get_metrics)
PrintResults ==
    /\ calc.pc = "evaluate"
    /\ ~EntriesLeft(calc)
    /\ calc' = [calc EXCEPT !.pc = "print_results",
                            !.reads = Append(@, "print_results")]
    /\ CalcOnly

\* execute, line 119: dump_acc_results_to_file (lines 246-264) reads the
\* metrics again, opens results.txt afresh, writes the summary line and then
\* the class lines
DumpAccResults ==
    /\ calc.pc = "print_results"
    /\ calc' = [calc EXCEPT
                  !.pc = "done",
                  !.reads = Append(@, "dump_acc_results_to_file"),
                  !.get_metrics_args =
                      GetMetricsArgs(calc.taxonomy, calc.excluded_ids),
                  !.result_file =
                      <<SummaryLine>> \o
                      WriteClassLines(calc.taxonomy, calc.excluded_ids, 0,
                                      NumEvalClasses)]
    /\ CalcOnly

NextCalc == ConstructCalc \/ EvaluateStep \/ PrintResults \/ DumpAccResults

SpecCalc == InitCalc /\ [][NextCalc]_vars

(***************************************************************************)
(* Claims about AccuracyCalculator, checked under SpecCalc.                *)
(***************************************************************************)
IsPrefix(a, b) == Len(a) <= Len(b) /\ a = SubSeq(b, 1, Len(a))

C5_State ==
    /\ calc.pc /= "new" => calc.sam_created = 1
    /\ calc.updates = SubSeq(calc.data_list, 1, calc.i)
    /\ calc.reads /= <<>> => calc.updates = calc.data_list
    /\ IsPrefix(calc.reads, <<"print_results", "dump_acc_results_to_file">>)

C5_Step ==
    calc.pc /= "new" =>
        /\ calc'.sam_created = calc.sam_created
        /\ \A cell \in Cells : calc'.sam[cell] >= calc.sam[cell]
        /\ calc'.updates /= calc.updates =>
              /\ calc.reads = <<>>
              /\ calc'.updates = Append(calc.updates,
                                        calc.data_list[Len(calc.updates) + 1])

RECURSIVE SumOver(_, _)
SumOver(f, S) ==
    IF S = {} THEN 0
    ELSE LET x == CHOOSE x \in S : TRUE IN f[x] + SumOver(f, S \ {x})

\* C6: after any sequence of updates counts[t][p] is the number of pixels
\* seen with target t and prediction p, for the valid targets t; sentinel and
\* out-of-range targets change no entry and raise no error, so the sum of
\* the matrix is the number of valid-target pixels processed.
C6_CountsAreValidPixelCounts ==
    calc.pc \in {"evaluate", "print_results", "done", "error"} =>
        /\ DOMAIN calc.sam = Cells
        /\ \A cell \in Cells : calc.sam[cell] = calc.seen[cell]
        /\ SumOver(calc.sam, Cells)
             = SumOver(calc.seen, {px \in PixelPairs :
                                      px[1] \in EvalClasses /\ px[1] /= IgnoreLabel})

\* two updates, one of a pixel with the sentinel target (skipped) and one of
\* a pixel with a valid target (counted)
C6_Witness ==
    /\ calc.pc = "evaluate" /\ calc.i = 2
    /\ \E p \in EvalClasses : calc.seen[<<IgnoreLabel, p>>] = 1
    /\ SumOver(calc.sam, Cells) = 1

\* two updates of pixels whose target is the first id past the classes
C6_WitnessOutOfRange ==
    /\ calc.pc = "evaluate" /\ calc.i = 2
    /\ \E p \in EvalClasses : calc.seen[<<NumEvalClasses, p>>] = 2
    /\ SumOver(calc.sam, Cells) = 0

\* the class ids that have a line in results.txt
ClassesInFile ==
    {calc.result_file[k].id : k \in 2 .. Len(calc.result_file)}

MaxDepth == 4
\* the default k of get_unique_stem_from_last_k_strs
DefaultK == 4

DirNames == {<<"a">>, <<"b">>}
FileNames == {<<"f", ".", "p">>, <<"g">>}
Paths == [absolute : BOOLEAN, dirs : SeqsUpTo(DirNames, MaxDepth), name : FileNames]

\* Path(fpath).parts: the root of an absolute path is a part of its own
Parts(path) ==
    (IF path.absolute THEN <<(<<"/">>)>> ELSE <<>>) \o path.dirs \o <<path.name>>

\* Path(fpath).stem: the file name without its last suffix
LastDot(name) ==
    IF \E j \in 2 .. Len(name) : name[j] = "."
    THEN CHOOSE j \in 2 .. Len(name) :
            name[j] = "." /\ \A m \in (j + 1) .. Len(name) : name[m] /= "."
    ELSE 0
Stem(path) ==
    IF LastDot(path.name) = 0 THEN path.name
    ELSE SubSeq(path.name, 1, LastDot(path.name) - 1)

\* parts[-k:-1] for k >= 1: the up to k - 1 parts before the last one
SliceBeforeLast(parts, k) ==
    SubSeq(parts, Max(Len(parts) - k, 0) + 1, Len(parts) - 1)

\* sep.join(strs)
RECURSIVE Join(_, _)
Join(sep, strs) ==
    IF strs = <<>> THEN <<>>
    ELSE IF Len(strs) = 1 THEN strs[1]
    ELSE strs[1] \o sep \o Join(sep, Tail(strs))

\* accuracy_calculator.get_unique_stem_from_last_k_strs(fpath, k)
get_unique_stem_from_last_k_strs(path, k) ==
    Join(<<"_">>, SliceBeforeLast(Parts(path), k)) \o <<"_">> \o Stem(path)

\* variant of infer_get_unique_stem that slices parts[-3:-1]
infer_get_unique_stemMutThree(path, k) ==
    Join(<<"_">>, SliceBeforeLast(Parts(path), 3)) \o <<"_">> \o Stem(path)
\* inference_task.get_unique_stem_from_last_k_strs(fpath, k): k is not used
infer_get_unique_stem(path, k) ==
    Join(<<"_">>, SliceBeforeLast(Parts(path), 4)) \o <<"_">> \o Stem(path)

KeysNew(path, unique) ==
    [pc |-> "new", path |-> path, img_name_unique |-> unique,
     image_name |-> <<>>, looked_up |-> FALSE,
     infer_key |-> <<>>, derived |-> FALSE]

\* the frames the key derivation leaves alone
KeysOnly == UNCHANGED <<sp, task, calc, net>>

InitKeys ==
    \E path \in Paths, unique \in BOOLEAN :
        /\ keys = KeysNew(path, unique)
        /\ sp = SpIdle
        /\ task = TaskIdle
        /\ calc = CalcIdle
        /\ net = NetIdle

\* evaluate_predictions, lines 142-147: the name the prediction is read under
EvalLookup ==
    /\ keys.pc = "new"
    /\ ~keys.looked_up
    /\ keys' = [keys EXCEPT
                  !.looked_up = TRUE,
                  !.image_name =
                      IF keys.img_name_unique THEN Stem(keys.path)
                      ELSE get_unique_stem_from_last_k_strs(keys.path, DefaultK)]
    /\ KeysOnly

\* the key the inference side derives for the same path
InferDerive ==
    /\ keys.pc = "new"
    /\ ~keys.derived
    /\ keys' = [keys EXCEPT
                  !.derived = TRUE,
                  !.infer_key = infer_get_unique_stem(keys.path, DefaultK)]
    /\ KeysOnly

NextKeys == EvalLookup \/ InferDerive

SpecKeys == InitKeys /\ [][NextKeys]_vars

(***************************************************************************)
(* Claims about the unique keys, checked under SpecKeys.                   *)
(***************************************************************************)
\* the last n elements of a sequence (all of them when it has fewer)
LastN(seq, n) == SubSeq(seq, Max(Len(seq) - n, 0) + 1, Len(seq))

\* the last 3 parent directory names and the file stem joined by underscores
SpecKey(path) == Join(<<"_">>, LastN(path.dirs, 3) \o <<Stem(path)>>)

BothDerived == keys.looked_up /\ keys.derived /\ ~keys.img_name_unique

\* C10 (as stated): for every path, also with fewer than 3 parent
\* directories, both functions return the last 3 parent directory names and
\* the file stem joined by underscores.
C10_KeyIsLastThreeParentsAndStem ==
    BothDerived =>
        /\ keys.image_name = keys.infer_key
        /\ keys.image_name = SpecKey(keys.path)

\* C10 (amended): both functions return the same key for every path; it is
\* the last 3 parent directory names and the stem joined by underscores when
\* the path has at least 3 parent directories or is relative with at least
\* one; the root "/" of an absolute path counts as a part, and a path with no
\* part before the file name gets "_" followed by the stem.
C10_SameKeyOnBothSides ==
    BothDerived =>
        /\ keys.image_name = keys.infer_key
        /\ (Len(keys.path.dirs) >= 3
              \/ (~keys.path.absolute /\ Len(keys.path.dirs) >= 1))
             => keys.image_name = SpecKey(keys.path)
        /\ (keys.path.absolute /\ Len(keys.path.dirs) < 3)
             => keys.image_name
                  = Join(<<"_">>, <<(<<"/">>)>> \o keys.path.dirs \o <<Stem(keys.path)>>)
        /\ (~keys.path.absolute /\ keys.path.dirs = <<>>)
             => keys.image_name = <<"_">> \o Stem(keys.path)

\* both sides have derived the key of a path with 4 parent directories and
\* a file suffix
C10_Witness ==
    /\ BothDerived
    /\ Len(keys.path.dirs) = 4
    /\ keys.path.dirs[1] /= keys.path.dirs[2]
    /\ Stem(keys.path) /= keys.path.name
    /\ keys.image_name = keys.path.dirs[2] \o <<"_">> \o keys.path.dirs[3] \o <<"_">>
                            \o keys.path.dirs[4] \o <<"_">> \o Stem(keys.path)

(***************************************************************************)
(* net_process.  A crop is one row of pixel values (the flip is along the  *)
(* width); scores are kept exact: a logit k stands for k * ln 2, so that   *)
(* exp(logit) = 2^k and a softmax value is a fraction <<num, den>> in      *)
(* lowest terms.  The classifier is outside the repository: StubModel is   *)
(* a family of deterministic classifiers, applied to each element of the   *)
(* batch on its own, that are not symmetric under the flip.                *)
(***************************************************************************)
\* largest crop width
MaxCropW == 3
\* pixel values are 0 .. MaxPixelValue
MaxPixelValue == 1
\* the per-channel mean normalize_img subtracts
PixelMean == 1

Crops == UNION {[1 .. w -> 0 .. MaxPixelValue] : w \in 1 .. MaxCropW}

\* tensor.flip along the width axis
FlipW(row) == [j \in DOMAIN row |-> row[Len(row) + 1 - j]]

\* normalize_img(input, mean, std) with unit std
normalize_img(row) == [j \in DOMAIN row |-> row[j] - PixelMean]

\* self.model on one batch element: per pixel, a logit for every class;
\* the logit of class 0 also looks at the pixel to the left when stub > 0
StubModel(stub, row) ==
    [j \in DOMAIN row |->
        [c \in Classes |->
            (c + 1) * (row[j] + PixelMean)
              + (IF c = 0 /\ j > 1 THEN stub * (row[j - 1] + PixelMean) ELSE 0)]]

RECURSIVE Pow2(_)
Pow2(k) == IF k <= 0 THEN 1 ELSE 2 * Pow2(k - 1)

RECURSIVE Gcd(_, _)
Gcd(a, b) == IF b = 0 THEN a ELSE Gcd(b, a % b)

\* a fraction in lowest terms
Frac(n, d) == <<n \div Gcd(n, d), d \div Gcd(n, d)>>

RECURSIVE SumPow2(_, _)
SumPow2(v, S) ==
    IF S = {} THEN 0
    ELSE LET c == CHOOSE c \in S : TRUE IN Pow2(v[c]) + SumPow2(v, S \ {c})

\* nn.Softmax(dim=1): over the class axis, at every pixel
Softmax(out) ==
    [j \in DOMAIN out |->
        [c \in Classes |-> Frac(Pow2(out[j][c]), SumPow2(out[j], Classes))]]

\* (a + b) / 2 of two fractions
Mean2(a, b) == Frac(a[1] * b[2] + b[1] * a[2], 2 * a[2] * b[2])

\* variant of FlipAverage that does not flip the second output back
FlipAverageMutNoReflip(o0, o1) ==
    [j \in DOMAIN o0 |-> [c \in Classes |-> Mean2(o0[j][c], o1[j][c])]]
\* line 442: average the output with the re-flipped output of the flipped crop
FlipAverage(o0, o1) ==
    [j \in DOMAIN o0 |-> [c \in Classes |-> Mean2(o0[j][c], FlipW(o1)[j][c])]]

\* net_process(image, flip) for output_taxonomy 'universal'
net_process(stub, image, flip) ==
    LET input == normalize_img(image)
        out0 == Softmax(StubModel(stub, input))
        out1 == Softmax(StubModel(stub, FlipW(input)))
    IN  IF flip THEN FlipAverage(out0, out1) ELSE out0

NetNew(stub, crop, flip, taxonomy) ==
    [pc |-> "new", stub |-> stub, crop |-> crop, flip |-> flip,
     output_taxonomy |-> taxonomy,
     on_crop |-> <<>>, end_crop |-> "none",
     on_mirror |-> <<>>, end_mirror |-> "none"]

\* the frames net_process leaves alone
NetOnly == UNCHANGED <<sp, task, calc, keys>>

InitNet ==
    \E stub \in 0 .. MaxStub, crop \in Crops, flip \in BOOLEAN,
       taxonomy \in OutputTaxonomies :
        /\ net = NetNew(stub, crop, flip, taxonomy)
        /\ sp = SpIdle
        /\ task = TaskIdle
        /\ calc = CalcIdle
        /\ keys = KeysIdle

\* net_process on the crop
NetProcessCrop ==
    /\ net.pc = "new"
    /\ net.end_crop = "none"
    /\ LET end == net_process_end(net.output_taxonomy)
       IN  net' = [net EXCEPT
                     !.end_crop = end,
                     !.on_crop = IF end = "output"
                                 THEN net_process(net.stub, net.crop, net.flip)
                                 ELSE <<>>]
    /\ NetOnly

\* net_process on the crop mirrored along the width
NetProcessMirror ==
    /\ net.pc = "new"
    /\ net.end_mirror = "none"
    /\ LET end == net_process_end(net.output_taxonomy)
       IN  net' = [net EXCEPT
                     !.end_mirror = end,
                     !.on_mirror = IF end = "output"
                                   THEN net_process(net.stub, FlipW(net.crop), net.flip)
                                   ELSE <<>>]
    /\ NetOnly

NextNet == NetProcessCrop \/ NetProcessMirror

SpecNet == InitNet /\ [][NextNet]_vars

(***************************************************************************)
(* Claims about net_process, checked under SpecNet.                        *)
(***************************************************************************)
BothOutputs == net.flip /\ net.end_crop = "output" /\ net.end_mirror = "output"

====
